---- MODULE Spec2Model ----
(***************************************************************************)
(* Identity keys for the nodes of a decoded document tree                  *)
(* (core/params.go): the identification schema (IdentificationParameter,   *)
(* ConditionalIDParameter), its resolution (Resolve / doResolve) and the   *)
(* recursive key builder (BuildUniqueKey / doBuildUniqueKey) with its      *)
(* helpers (isVerifiedBy, getStringValueFromObj, concatSeparatedString,    *)
(* incrKey).                                                               *)
(*                                                                         *)
(* Go strings are TLA+ strings; a Go map[string]interface{} is an object   *)
(* of the heap `doc` (a function from the property names it holds to       *)
(* values), addressed by an identifier because Go maps are references:     *)
(* two mappings with the same content are still two containers.            *)
(***************************************************************************)
EXTENDS Integers, Sequences, FiniteSets, TLC

\* the number of BuildUniqueKey invocations explored after Resolve
MaxCalls == 2

(***************************************************************************)
(* Strings                                                                 *)
(***************************************************************************)

sepPLUS == "+"
sepPIPE == "|"
currentPATH == "."
objINCREMENTS == "_increments_"

\* the printable ASCII characters in byte order (Go compares strings bytewise);
\* the quotes, the backquote and the backslash occur in no string of the model
Ascii == " !#$%&()*+,-./0123456789:;<=>?@ABCDEFGHIJKLMNOPQRSTUVWXYZ[]^_abcdefghijklmnopqrstuvwxyz{|}~"

Ord(c) == CHOOSE i \in 1..Len(Ascii) : SubSeq(Ascii, i, i) = c

RECURSIVE StrLess(_, _)
StrLess(a, b) ==
  IF Len(b) = 0 THEN FALSE
  ELSE IF Len(a) = 0 THEN TRUE
  ELSE LET x == Ord(SubSeq(a, 1, 1))
           y == Ord(SubSeq(b, 1, 1))
       IN  IF x # y THEN x < y
           ELSE StrLess(SubSeq(a, 2, Len(a)), SubSeq(b, 2, Len(b)))

StartsWith(s, p) == Len(s) >= Len(p) /\ SubSeq(s, 1, Len(p)) = p

Digit(d) == SubSeq("0123456789", d + 1, d + 1)

\* strconv.Itoa, and fmt's %d
RECURSIVE Itoa(_)
Itoa(n) ==
  IF n < 0 THEN "-" \o Itoa(-n)
  ELSE IF n < 10 THEN Digit(n)
  ELSE Itoa(n \div 10) \o Digit(n % 10)

\* strings.Join
RECURSIVE Join(_, _)
Join(values, sep) ==
  IF Len(values) = 0 THEN ""
  ELSE IF Len(values) = 1 THEN values[1]
  ELSE values[1] \o sep \o Join(Tail(values), sep)

\* utility function to gracefully concatenate 2 strings
concatSeparatedString_dangling(val1, sep, val2) == val1 \o sep \o val2

concatSeparatedString(val1, sep, val2) ==
  IF val1 = "" THEN val2
  ELSE IF val2 = "" THEN val1
  ELSE val1 \o sep \o val2

(***************************************************************************)
(* Document values.  A float64 is held in millionths (the precision of     *)
(* FormatFloat(v, 'f', 6, 64)): Num(3500000) is 3.5.                       *)
(***************************************************************************)

Micro == 1000000

Str(s) == [t |-> "string", s |-> s]
Num(m) == [t |-> "float64", m |-> m]
Bool(b) == [t |-> "bool", b |-> b]
Null == [t |-> "nil"]
Map(o) == [t |-> "map", ref |-> o]           \* map[string]interface{}
Maps(os) == [t |-> "maps", refs |-> os]      \* []map[string]interface{}
Slice(vs) == [t |-> "slice", vs |-> vs]      \* []interface{}, e.g. an array of scalars
Incs(c) == [t |-> "increments", c |-> c]     \* map[string]int

\* a nil map[string]interface{}
NilObj == "nil"

\* value, ok := obj[prop]
Lookup(d, o, prop) ==
  IF o # NilObj /\ prop \in DOMAIN d[o]
  THEN [ok |-> TRUE, v |-> d[o][prop]]
  ELSE [ok |-> FALSE, v |-> Null]

Put(f, k, v) == [x \in DOMAIN f \cup {k} |-> IF x = k THEN v ELSE f[x]]

\* the fraction digits of a float, without the trailing zeros
RECURSIVE StripZeros(_)
StripZeros(s) ==
  IF Len(s) > 0 /\ SubSeq(s, Len(s), Len(s)) = "0"
  THEN StripZeros(SubSeq(s, 1, Len(s) - 1))
  ELSE s

RECURSIVE PadLeft(_, _)
PadLeft(s, n) == IF Len(s) >= n THEN s ELSE PadLeft("0" \o s, n)

Abs(m) == IF m < 0 THEN -m ELSE m
Sign(m) == IF m < 0 THEN "-" ELSE ""

\* strconv.FormatFloat(v, 'f', 6, 64)
FormatFloat6(m) ==
  Sign(m) \o Itoa(Abs(m) \div Micro) \o "." \o PadLeft(Itoa(Abs(m) % Micro), 6)

\* fmt's %v of a float64 (%g, shortest form; exponent form below 1e-4)
FmtFloat(m) ==
  IF m % Micro = 0 THEN Itoa(m \div Micro)
  ELSE IF Abs(m) >= 100
       THEN Sign(m) \o Itoa(Abs(m) \div Micro) \o "."
              \o StripZeros(PadLeft(Itoa(Abs(m) % Micro), 6))
       ELSE LET ds == Itoa(Abs(m))
                mant == StripZeros(ds)
            IN  Sign(m) \o SubSeq(mant, 1, 1)
                  \o (IF Len(mant) > 1 THEN "." \o SubSeq(mant, 2, Len(mant)) ELSE "")
                  \o "e-0" \o Itoa(7 - Len(ds))

RECURSIVE SortedKeys(_)
SortedKeys(S) ==
  IF S = {} THEN <<>>
  ELSE LET k == CHOOSE x \in S : \A y \in S \ {x} : StrLess(x, y)
       IN  <<k>> \o SortedKeys(S \ {k})

\* fmt.Sprintf("%v", value)
RECURSIVE FmtV(_, _)
FmtV(d, v) ==
  CASE v.t = "nil" -> "<nil>"
    [] v.t = "string" -> v.s
    [] v.t = "bool" -> IF v.b THEN "true" ELSE "false"
    [] v.t = "float64" -> FmtFloat(v.m)
    [] v.t = "map" ->
         IF v.ref = NilObj THEN "map[]"
         ELSE LET ks == SortedKeys(DOMAIN d[v.ref])
              IN  "map[" \o Join([i \in 1..Len(ks) |->
                                    ks[i] \o ":" \o FmtV(d, d[v.ref][ks[i]])], " ") \o "]"
    [] v.t = "maps" ->
         "[" \o Join([i \in 1..Len(v.refs) |-> FmtV(d, Map(v.refs[i]))], " ") \o "]"
    [] v.t = "slice" ->
         "[" \o Join([i \in 1..Len(v.vs) |-> FmtV(d, v.vs[i])], " ") \o "]"
    [] v.t = "increments" ->
         LET ks == SortedKeys(DOMAIN v.c)
         IN  "map[" \o Join([i \in 1..Len(ks) |-> ks[i] \o ":" \o Itoa(v.c[ks[i]])], " ") \o "]"

(***************************************************************************)
(* The documents.  One heap holds two document trees: "root" (an array of  *)
(* three items, a nested mapping, a null, scalars, an array of scalars)    *)
(* and "ex", the document {items: [{id: "b"}, {id: "a"}]}.                 *)
(***************************************************************************)

Doc0 ==
  [root  |-> [items |-> Maps(<<"item1", "item2", "item3">>), sub |-> Map("sub"),
              nul |-> Null, n |-> Num(3500000), kind |-> Str("x"),
              list |-> Slice(<<Str("u")>>)],
   item1 |-> [id |-> Str("b"), t |-> Str("A"), kind |-> Str("k"), txt |-> Str(""),
              v |-> Str("")],
   item2 |-> [id |-> Str("a"), t |-> Str("B"), kind |-> Str("k"), txt |-> Str(""),
              v |-> Str("q"), n |-> Null],
   item3 |-> [id |-> Str("b"), t |-> Str("C"), kind |-> Str("k"), txt |-> Str(""),
              v |-> Str(""), n |-> Slice(<<Num(1000000)>>)],
   sub   |-> [id |-> Map("tag"), n |-> Num(3000000), ok |-> Bool(TRUE),
              t |-> Num(3000000), neg |-> Num(-2000000)],
   tag   |-> ("#text" :> Str("s")) @@ ("attr" :> Str("z")),
   ex    |-> [items |-> Maps(<<"ex1", "ex2">>)],
   ex1   |-> [id |-> Str("b")],
   ex2   |-> [id |-> Str("a")]]

Objects == DOMAIN Doc0

\* the (orig, obj) pairs BuildUniqueKey is invoked with: a document's root with
\* itself, a container with one of its array items, a container with a nil map;
\* the container is always a mapping of the document
Pairs ==
  {<<"root", "root">>, <<"root", "item1">>, <<"root", "item2">>, <<"root", "item3">>,
   <<"ex", "ex">>, <<"root", NilObj>>}

(***************************************************************************)
(* The schemas, as deserialized: a table of IdentificationParameter nodes, *)
(* node 1 the root; When, Look and For hold the numbers of the nodes they  *)
(* point to.  A ConditionalIDParameter is a node with isCondition set,     *)
(* its gate in Prop and Is.                                                *)
(***************************************************************************)

\* parent == nil
NilParam == 0

NoFor == <<>>

Param(at, use, incr, when, look, for, name) ==
  [At |-> at, Use |-> use, Incr |-> incr, When |-> when, Look |-> look, For |-> for,
   Name |-> name, Prop |-> "", Is |-> "", isCondition |-> FALSE,
   parent |-> NilParam, conditional |-> FALSE, fullPath |-> ""]

Cond(prop, is, p) == [p EXCEPT !.Prop = prop, !.Is = is, !.isCondition = TRUE]

\* {look: [{at: "items", look: [{use: ["id"]}]}]}
SchemaExample ==
  << Param("", <<>>, FALSE, <<>>, <<2>>, NoFor, ""),
     Param("items", <<>>, FALSE, <<>>, <<3>>, NoFor, ""),
     Param("", <<"id">>, FALSE, <<>>, <<>>, NoFor, "") >>

\* the items of an array keyed by their id, through a "." self-reference
SchemaItems ==
  << Param("", <<>>, FALSE, <<>>, <<3>>, [items |-> 2], ""),
     Param("", <<"id", "n">>, FALSE, <<>>, <<>>, NoFor, ""),
     Param("items", <<>>, FALSE, <<5>>, <<4>>, NoFor, ""),
     Param(".", <<"id">>, FALSE, <<>>, <<>>, NoFor, ""),
     Cond("t", "B", Param("", <<"txt">>, FALSE, <<>>, <<>>, NoFor, "")) >>

\* conditional branches, two of them with the same gate
SchemaWhen ==
  << Param("", <<"id">>, FALSE, <<2, 3, 4, 5>>, <<>>, [u |-> 7], ""),
     Cond("t", "A", Param("", <<"id">>, FALSE, <<>>, <<>>, [c |-> 6], "typeA")),
     Cond("t", "A", Param("", <<"kind">>, FALSE, <<>>, <<>>, NoFor, "dupA")),
     Cond("t", "B", Param("", <<"txt">>, FALSE, <<>>, <<>>, NoFor, "")),
     Cond("t", "C", Param("", <<"txt">>, FALSE, <<>>, <<>>, NoFor, "typeC")),
     Param("", <<"txt">>, FALSE, <<>>, <<>>, NoFor, ""),
     Param("", <<"txt">>, FALSE, <<>>, <<>>, NoFor, "") >>

\* the shapes a Look child may find at its path; a gate on a number
SchemaLook ==
  << Param("", <<>>, FALSE, <<>>, <<2, 3, 4>>, [s |-> 5], ""),
     Param("sub", <<"id">>, FALSE, <<7>>, <<>>, NoFor, ""),
     Param("nul", <<"id">>, FALSE, <<>>, <<>>, NoFor, ""),
     Param("gone", <<"id">>, FALSE, <<>>, <<>>, NoFor, ""),
     Param("", <<>>, FALSE, <<>>, <<6>>, NoFor, ""),
     Param("n", <<"id">>, FALSE, <<>>, <<>>, NoFor, ""),
     Cond("t", "3", Param("", <<"id", "n", "ok", "neg">>, FALSE, <<>>, <<>>, NoFor, "three")) >>

\* Incr on the root, on the node registered for the items and on two "."
\* self-references of the items
SchemaIncr ==
  << Param("", <<>>, TRUE, <<>>, <<3>>, [items |-> 2], ""),
     Param("", <<"kind">>, TRUE, <<>>, <<>>, NoFor, ""),
     Param("items", <<>>, FALSE, <<>>, <<4, 5>>, NoFor, ""),
     Param(".", <<"id">>, TRUE, <<>>, <<>>, NoFor, ""),
     Param(".", <<"kind">>, TRUE, <<>>, <<>>, NoFor, "") >>

\* gates on a string and on a missing property; an array under a branch
SchemaGate ==
  << Param("", <<>>, FALSE, <<2>>, <<>>, [sub |-> 6], ""),
     Cond("kind", "x", Param("", <<>>, FALSE, <<>>, <<3>>, [k |-> 8], "K")),
     Param("items", <<>>, FALSE, <<4>>, <<5>>, NoFor, ""),
     Cond("t", "A", Param("", <<"txt">>, FALSE, <<>>, <<>>, NoFor, "")),
     Param(".", <<"v">>, FALSE, <<>>, <<>>, NoFor, ""),
     Param("", <<"n">>, FALSE, <<7>>, <<>>, NoFor, ""),
     Cond("t", "<nil>", Param("", <<"id">>, TRUE, <<>>, <<>>, NoFor, "untyped")),
     Param("", <<>>, FALSE, <<>>, <<9>>, NoFor, ""),
     Param("items", <<>>, FALSE, <<>>, <<10>>, NoFor, ""),
     Param(".", <<"v">>, FALSE, <<>>, <<>>, NoFor, "") >>

Schemas == {SchemaExample, SchemaItems, SchemaWhen, SchemaLook, SchemaIncr, SchemaGate}

(***************************************************************************)
(* State                                                                   *)
(***************************************************************************)

VARIABLES
  params,   \* the schema: node number -> IdentificationParameter
  doc,      \* the document heap: object -> (property name -> value)
  pc,       \* "loaded" (deserialized), "resolved", "aborted" (after a panic)
  pre,      \* the heap as it was before the last BuildUniqueKey invocation
  calls,    \* the BuildUniqueKey invocations so far: node, orig, obj, key, err,
            \*   incrs (the passes through incrKey the invocation made)
  trace,    \* the evaluations of doBuildUniqueKey the last invocation entered
  log       \* every pass through incrKey so far: node, container, base key, key

vars == <<params, doc, pc, pre, calls, trace, log>>

Nodes == DOMAIN params

(***************************************************************************)
(* Resolve                                                                 *)
(***************************************************************************)

\* the conditional flag doResolve passes to a For child, a When branch, a Look child
forFlag(conditional) == conditional
whenFlag(conditional) == TRUE
lookFlag_forced(conditional) == TRUE

lookFlag(conditional) == conditional

\* checkValidity returns nil for every node, so no doResolve returns an error
checkValidity(P, n) == "nil"

RECURSIVE doResolve(_, _, _)
RECURSIVE resolveFor(_, _, _, _)
RECURSIVE resolveWhen(_, _, _, _)
RECURSIVE resolveLook(_, _, _, _)

\* for path, subParam := range thisParam.For (Go ranges over a map in any order;
\* the subtrees are disjoint, so every order ends in the same table)
resolveFor(P, n, paths, conditional) ==
  IF paths = {} THEN P
  ELSE LET path == CHOOSE x \in paths : TRUE
           sub == P[n].For[path]
           P1 == [P EXCEPT ![sub].parent = n,
                           ![sub].At = IF @ = "" THEN path ELSE @]
       IN  resolveFor(doResolve(P1, sub, forFlag(conditional)), n, paths \ {path},
                      conditional)

resolveWhen(P, n, i, conditional) ==
  IF i > Len(P[n].When) THEN P
  ELSE LET condition == P[n].When[i]
           P1 == [P EXCEPT ![condition].parent = n,
                           ![condition].At = IF @ = "" THEN P[n].At ELSE @]
       IN  resolveWhen(doResolve(P1, condition, whenFlag(conditional)), n, i + 1,
                       conditional)

resolveLook(P, n, i, conditional) ==
  IF i > Len(P[n].Look) THEN P
  ELSE LET looked == P[n].Look[i]
           P1 == [P EXCEPT ![looked].parent = n]
       IN  resolveLook(doResolve(P1, looked, lookFlag(conditional)), n, i + 1,
                       conditional)

doResolve(P, n, conditional) ==
  LET P0 == [P EXCEPT ![n].conditional = conditional]
      P1 == resolveFor(P0, n, DOMAIN P0[n].For, conditional)
      P2 == resolveWhen(P1, n, 1, conditional)
  IN  resolveLook(P2, n, 1, conditional)

Resolve ==
  /\ pc = "loaded"
  /\ params' = doResolve(params, 1, FALSE)
  /\ pc' = IF checkValidity(params', 1) = "nil" THEN "resolved" ELSE "aborted"
  /\ UNCHANGED <<doc, pre, calls, trace, log>>

(***************************************************************************)
(* Building a key.  A panic unwinds the whole recursion: it is the err     *)
(* field of the evaluation state, which every step hands on untouched.     *)
(* An evaluation state is [result, doc, trace, log, err, errNode].         *)
(***************************************************************************)

NoError == ""
EmptyKeyError == "EmptyKeyError"                \* the panics of lines 152 and 204
UnsupportedShapeError == "UnsupportedShapeError" \* the panics of lines 196 and 271
RuntimeError == "runtime error"                 \* nil map write, failed type assertion

\* isVerifiedBy returns true if the given object verifies this condition
isVerifiedBy(P, c, d, obj) ==
  IF obj = NilObj THEN FALSE
  ELSE FmtV(d, Lookup(d, obj, P[c].Prop).v) = P[c].Is

\* for _, condition := range thisParam.When { if condition.isVerifiedBy(obj) ...:
\* the index of the branch taken, 0 when none is verified
RECURSIVE firstVerifiedFrom(_, _, _, _, _)
firstVerifiedFrom(P, n, d, obj, i) ==
  IF i > Len(P[n].When) THEN 0
  ELSE IF isVerifiedBy(P, P[n].When[i], d, obj) THEN i
  ELSE firstVerifiedFrom(P, n, d, obj, i + 1)

firstVerified_last(P, n, d, obj) ==
  LET V == {i \in 1..Len(P[n].When) : isVerifiedBy(P, P[n].When[i], d, obj)}
  IN  IF V = {} THEN 0 ELSE CHOOSE i \in V : \A j \in V : j <= i

firstVerified(P, n, d, obj) == firstVerifiedFrom(P, n, d, obj, 1)

\* the default case of getStringValueFromObj, for a nil value
valueOfNil_empty(prop, ok) == IF ok THEN prop ELSE ""

valueOfNil(prop, ok) == IF ok THEN prop ELSE "(" \o prop \o ")"

\* getStringValueFromObj: [s, err]
RECURSIVE getStringValueFromObj(_, _, _)
getStringValueFromObj(d, obj, prop) ==
  LET l == Lookup(d, obj, prop)
      value == l.v
  IN  CASE value.t = "float64" ->
             [s |-> IF value.m % Micro = 0 THEN Itoa(value.m \div Micro)
                    ELSE FormatFloat6(value.m),
              err |-> NoError]
        [] value.t = "string" -> [s |-> value.s, err |-> NoError]
        [] value.t = "bool" -> [s |-> IF value.b THEN "true" ELSE "false", err |-> NoError]
        [] value.t = "map" -> getStringValueFromObj(d, value.ref, "#text")
        [] value.t = "nil" -> [s |-> valueOfNil(prop, l.ok), err |-> NoError]
        [] OTHER -> [s |-> "", err |-> UnsupportedShapeError]

\* for _, prop := range thisParam.Use: [s, err]
RECURSIVE useKey(_, _, _, _, _, _)
useKey(P, n, d, obj, i, result) ==
  IF i > Len(P[n].Use) THEN [s |-> result, err |-> NoError]
  ELSE LET g == getStringValueFromObj(d, obj, P[n].Use[i])
       IN  IF g.err # NoError THEN g
           ELSE useKey(P, n, d, obj, i + 1, concatSeparatedString(result, sepPLUS, g.s))

\* if !thisParam.conditional && result == "" { panic(...
emptyKeyPanics_never(conditional, result) == FALSE

emptyKeyPanics(conditional, result) == ~conditional /\ result = ""

\* the default case of the Look switch, for a nil target
lookNil_swapped(at, ok) == IF ok THEN "(" \o at \o ")" ELSE at \o "empty ??"

lookNil(at, ok) == IF ok THEN at \o "empty ??" ELSE "(" \o at \o ")"

\* if key != "" || !nextIdParam.conditional { values = append(values, key) }
keepItemKey(key, conditional) == key # "" \/ ~conditional

Reverse(values) == [i \in 1..Len(values) |-> values[Len(values) + 1 - i]]

joinItemKeys_reversed(values) == Join(Reverse(values), sepPIPE)

\* strings.Join(values, sepPIPE)
joinItemKeys(values) == Join(values, sepPIPE)

\* if thisParam.Incr
incrRequested_always(P, n) == TRUE

incrRequested(P, n) == P[n].Incr

\* incrKey: [doc, result, err]
incrKey_before(d, obj, key) ==
  LET l == Lookup(d, obj, objINCREMENTS)
      c0 == IF l.v.t = "nil" THEN <<>> ELSE l.v.c
      old == IF key \in DOMAIN c0 THEN c0[key] ELSE 0
  IN  [doc |-> [d EXCEPT ![obj] = Put(@, objINCREMENTS, Incs(Put(c0, key, old + 1)))],
       result |-> key \o "#" \o Itoa(old),
       err |-> NoError]

incrKey_inPlace(d, obj, key) ==
  LET l == Lookup(d, obj, key)
      old == IF l.v.t = "float64" THEN l.v.m \div Micro ELSE 0
  IN  [doc |-> [d EXCEPT ![obj] = Put(@, key, Num((old + 1) * Micro))],
       result |-> key \o "#" \o Itoa(old + 1),
       err |-> NoError]

incrKey(d, obj, key) ==
  LET l == Lookup(d, obj, objINCREMENTS)
  IN  IF obj = NilObj \/ l.v.t \notin {"nil", "increments"}
      THEN [doc |-> d, result |-> "", err |-> RuntimeError]
      ELSE LET c0 == IF l.v.t = "nil" THEN <<>> ELSE l.v.c
               count == (IF key \in DOMAIN c0 THEN c0[key] ELSE 0) + 1
           IN  [doc |-> [d EXCEPT ![obj] = Put(@, objINCREMENTS, Incs(Put(c0, key, count)))],
                result |-> key \o "#" \o Itoa(count),
                err |-> NoError]

Panic(s, e, n) == [s EXCEPT !.result = "", !.err = e, !.errNode = n]

\* End: handling the increment
atEnd(P, n, orig, obj, s) ==
  IF s.err # NoError \/ ~incrRequested(P, n) THEN s
  ELSE LET k == incrKey(s.doc, orig, s.result)
       IN  IF k.err # NoError THEN Panic(s, k.err, NilParam)
           ELSE [s EXCEPT !.result = k.result,
                          !.doc = k.doc,
                          !.log = Append(@, [node |-> n, orig |-> orig, obj |-> obj,
                                             base |-> s.result, key |-> k.result])]

RECURSIVE doBuildUniqueKey(_, _, _, _, _)
RECURSIVE lookAll(_, _, _, _, _, _)
RECURSIVE lookItems(_, _, _, _, _, _, _)

\* for _, targetItem := range target: [values, s]
lookItems(P, c, obj, refs, i, values, s) ==
  IF i > Len(refs) \/ s.err # NoError THEN [values |-> values, s |-> s]
  ELSE LET r == doBuildUniqueKey(P, c, obj, refs[i], s)
       IN  lookItems(P, c, obj, refs, i + 1,
                     IF r.err = NoError /\ keepItemKey(r.result, P[c].conditional)
                     THEN Append(values, r.result) ELSE values,
                     r)

\* one nextIdParam of thisParam.Look, s.result being the key accumulated so far
lookOne(P, n, c, orig, obj, s) ==
  IF P[c].At = currentPATH
  THEN LET r == doBuildUniqueKey(P, c, orig, obj, s)
       IN  [r EXCEPT !.result = concatSeparatedString(s.result, sepPLUS, r.result)]
  ELSE LET l == Lookup(s.doc, obj, P[c].At)
           target == l.v
       IN  CASE target.t = "map" ->
                  LET r == doBuildUniqueKey(P, c, obj, target.ref, s)
                  IN  [r EXCEPT !.result = concatSeparatedString(s.result, sepPLUS, r.result)]
             [] target.t = "maps" ->
                  LET it == lookItems(P, c, obj, target.refs, 1, <<>>, s)
                  IN  [it.s EXCEPT !.result =
                         concatSeparatedString(s.result, sepPLUS, joinItemKeys(it.values))]
             [] target.t = "nil" ->
                  [s EXCEPT !.result =
                     concatSeparatedString(s.result, sepPLUS, lookNil(P[c].At, l.ok))]
             [] OTHER -> Panic(s, UnsupportedShapeError, n)

\* for _, nextIdParam := range thisParam.Look
lookAll(P, n, orig, obj, i, s) ==
  IF i > Len(P[n].Look) \/ s.err # NoError THEN s
  ELSE lookAll(P, n, orig, obj, i + 1, lookOne(P, n, P[n].Look[i], orig, obj, s))

doBuildUniqueKey(P, n, orig, obj, s) ==
  LET s0 == [s EXCEPT !.result = "",
                      !.trace = Append(@, [node |-> n, orig |-> orig, obj |-> obj])]
      w == firstVerified(P, n, s.doc, obj)
  IN  IF s.err # NoError THEN s
      ELSE IF w # 0
      THEN \* handling the particular cases specified in the "when"
           LET condition == P[n].When[w]
               r == doBuildUniqueKey(P, condition, orig, obj, s0)
           IN  atEnd(P, n, orig, obj,
                     [r EXCEPT !.result =
                        concatSeparatedString(P[condition].Name, sepPLUS, r.result)])
      ELSE IF Len(P[n].Use) > 0
      THEN \* using the "use" if there's one
           LET u == useKey(P, n, s0.doc, obj, 1, "")
           IN  IF u.err # NoError THEN Panic(s0, u.err, n)
               ELSE IF emptyKeyPanics(P[n].conditional, u.s)
               THEN Panic(s0, EmptyKeyError, n)
               ELSE atEnd(P, n, orig, obj, [s0 EXCEPT !.result = u.s])
      ELSE \* else, "look"-ing for the complex case
           LET r == lookAll(P, n, orig, obj, 1, s0)
           IN  IF r.err # NoError THEN r
               ELSE IF emptyKeyPanics(P[n].conditional, r.result)
               THEN Panic(r, EmptyKeyError, n)
               ELSE atEnd(P, n, orig, obj, r)

\* buildFullPath builds this ID param's full path
RECURSIVE buildFullPath(_, _)
buildFullPath(P, n) ==
  IF P[n].parent = NilParam THEN P[n].At
  ELSE buildFullPath(P, P[n].parent) \o ">" \o P[n].At

\* String returns this ID param's full path, building it once (the panics print it)
String(P, n) ==
  IF P[n].fullPath = "" THEN [P EXCEPT ![n].fullPath = buildFullPath(P, n)] ELSE P

\* the nodes the comparison looks up to key a document node: the root and the
\* nodes registered under a path in some For
Callable(P) ==
  {1} \cup {m \in DOMAIN P : \E n \in DOMAIN P : \E path \in DOMAIN P[n].For :
              P[n].For[path] = m}

Start(d) ==
  [result |-> "", doc |-> d, trace |-> <<>>, log |-> <<>>, err |-> NoError,
   errNode |-> NilParam]

BuildUniqueKey(n, orig, obj) ==
  /\ pc = "resolved"
  /\ Len(calls) < MaxCalls
  /\ LET r == doBuildUniqueKey(params, n, orig, obj, Start(doc))
     IN  /\ doc' = r.doc
         /\ pre' = doc
         /\ trace' = r.trace
         /\ log' = log \o r.log
         /\ calls' = Append(calls, [node |-> n, orig |-> orig, obj |-> obj,
                                    key |-> r.result, err |-> r.err,
                                    incrs |-> Len(r.log)])
         /\ pc' = IF r.err = NoError THEN "resolved" ELSE "aborted"
         /\ params' = IF r.errNode # NilParam THEN String(params, r.errNode) ELSE params

Init ==
  /\ params \in Schemas
  /\ doc = Doc0
  /\ pre = Doc0
  /\ pc = "loaded"
  /\ calls = <<>>
  /\ trace = <<>>
  /\ log = <<>>

Next ==
  \/ Resolve
  \/ \E n \in Callable(params) : \E p \in Pairs : BuildUniqueKey(n, p[1], p[2])

Spec == Init /\ [][Next]_vars

(***************************************************************************)
(* Vocabulary of the properties                                            *)
(***************************************************************************)

HasCall == Len(calls) > 0
Last == calls[Len(calls)]
Ok(c) == c.err = NoError

\* the passes through incrKey of the last invocation
LastIncrs == {i \in 1..Len(log) : i > Len(log) - Last.incrs}

\* the key of the last invocation before the Incr post-processing of its node
LastBase == IF params[Last.node].Incr THEN log[Len(log)].base ELSE Last.key

\* the branches of node n whose gate obj verified when the last invocation began
Verified(n, obj) ==
  {i \in 1..Len(params[n].When) : isVerifiedBy(params, params[n].When[i], pre, obj)}

\* the first of them in declared order, 0 when there is none
FirstMatch(n, obj) ==
  IF Verified(n, obj) = {} THEN 0
  ELSE CHOOSE i \in Verified(n, obj) : \A j \in Verified(n, obj) : i <= j

\* the branch the last invocation matched, and what that branch builds on the
\* same (container, current) pair
LastBranch == params[Last.node].When[FirstMatch(Last.node, Last.obj)]
LastBranchRun == doBuildUniqueKey(params, LastBranch, Last.orig, Last.obj, Start(pre))

\* the last invocation matched no branch of its node
NoMatch == FirstMatch(Last.node, Last.obj) = 0

\* C1: on one container, the k-th pass through the increment whose base key is X
\* returns "X#k": per container and per base key the suffixes are 1, 2, 3, ... in
\* encounter order, whatever happens to other base keys and other containers.
IncrSuffixesCountUp ==
  \A i \in 1..Len(log) :
    log[i].key = log[i].base \o "#"
                   \o Itoa(Cardinality({j \in 1..i : /\ log[j].orig = log[i].orig
                                                    /\ log[j].base = log[i].base}))

\* three passes with the base key "k" on the container "root", after passes with
\* other base keys on the container "ex" in an earlier invocation
WitnessIncrSuffixes ==
  /\ Len(calls) = 2
  /\ \E i, j, k \in 1..Len(log) :
       /\ i < j /\ j < k
       /\ log[i].orig = "root" /\ log[j].orig = "root" /\ log[k].orig = "root"
       /\ log[i].key = "k#1" /\ log[j].key = "k#2" /\ log[k].key = "k#3"
       /\ \E h \in 1..(i - 1) : log[h].orig = "ex" /\ log[h].key = "(kind)#2"

\* C2: with a non-empty When list, the key before the Incr post-processing is that
\* of the first branch in declared order whose gate current verifies,
\* concat(branch.Name, "+", the branch's key on the same pair); nothing else of the
\* node is evaluated; with no matching branch the node falls through to Use and Look.
FirstMatchingBranchDecides ==
  (HasCall /\ Len(params[Last.node].When) > 0) =>
     IF NoMatch
     THEN LET r == doBuildUniqueKey([params EXCEPT ![Last.node].When = <<>>],
                                    Last.node, Last.orig, Last.obj, Start(pre))
          IN  Last.err = r.err /\ Last.key = r.result /\ trace = r.trace
     ELSE /\ Last.err = LastBranchRun.err
          /\ trace = <<[node |-> Last.node, orig |-> Last.orig, obj |-> Last.obj]>>
                       \o LastBranchRun.trace
          /\ Ok(Last) =>
               LastBase = concatSeparatedString(params[LastBranch].Name, sepPLUS,
                                                LastBranchRun.result)

\* two branches match and the first one gives the key
WitnessFirstMatchingBranch ==
  /\ HasCall /\ Ok(Last)
  /\ Cardinality(Verified(Last.node, Last.obj)) = 2
  /\ Last.key = "typeA+b"

\* C3 as stated: whenever a branch matches, the key starts with "<branchName>+".
MatchedKeyStartsWithNamePlus ==
  (HasCall /\ Ok(Last) /\ ~NoMatch) =>
     StartsWith(Last.key, params[LastBranch].Name \o sepPLUS)

\* C3 amended: when a branch matches, the key starts with "<branchName>+" if the
\* branch's Name and the branch's key are both non-empty; with an empty branch key
\* the key (before Incr) is the Name alone, with an empty Name it is the branch's key.
MatchedKeyJoinsNameAndBranchKey ==
  (HasCall /\ Ok(Last) /\ ~NoMatch) =>
     LET name == params[LastBranch].Name
         key == LastBranchRun.result
     IN  /\ (name # "" /\ key # "") => StartsWith(Last.key, name \o sepPLUS)
         /\ key = "" => LastBase = name
         /\ name = "" => LastBase = key

WitnessMatchedKey ==
  /\ HasCall /\ Ok(Last) /\ ~NoMatch
  /\ params[LastBranch].Name = "typeA"
  /\ Last.key = "typeA+b"

\* C4 as stated: a non-conditional node never returns "".
NonConditionalKeyNeverEmpty ==
  (HasCall /\ Ok(Last) /\ ~params[Last.node].conditional) => Last.key # ""

\* C4 amended: a non-conditional node returns "" only through a matching When
\* branch with an empty Name whose own key is empty, the node's Incr being unset;
\* with no matching branch it aborts or returns a non-empty key.
NonConditionalEmptyOnlyThroughBranch ==
  (HasCall /\ ~params[Last.node].conditional) =>
     /\ NoMatch => (~Ok(Last) \/ Last.key # "")
     /\ (Ok(Last) /\ Last.key = "") =>
          /\ ~NoMatch
          /\ params[LastBranch].Name = ""
          /\ LastBranchRun.result = ""
          /\ ~params[Last.node].Incr

\* a non-conditional node with no matching branch aborts on its empty key
WitnessNonConditionalEmpty ==
  /\ HasCall /\ ~params[Last.node].conditional /\ NoMatch
  /\ Last.err = EmptyKeyError

\* the Use rule decides the last invocation, and obj holds none of the properties
UseOnlyAbsent ==
  /\ HasCall /\ NoMatch /\ Len(params[Last.node].Use) > 0
  /\ \A i \in 1..Len(params[Last.node].Use) :
       ~Lookup(pre, Last.obj, params[Last.node].Use[i]).ok

\* the Use rule decides the last invocation, and every property holds ""
UseOnlyEmptyStrings ==
  /\ HasCall /\ NoMatch /\ Len(params[Last.node].Use) > 0
  /\ \A i \in 1..Len(params[Last.node].Use) :
       Lookup(pre, Last.obj, params[Last.node].Use[i]).v = Str("")

\* C5 as stated: a Use list naming only absent properties aborts with the empty-key
\* error on a non-conditional node and returns "" on a conditional one.
AbsentUseIsEmpty ==
  UseOnlyAbsent =>
     IF params[Last.node].conditional THEN Ok(Last) /\ Last.key = ""
     ELSE Last.err = EmptyKeyError

\* C5 amended: a Use list naming only absent properties p1, p2, ... yields
\* "(p1)+(p2)+..." before Incr, conditional or not, and never aborts; a Use list
\* whose properties all hold the empty string aborts with the empty-key error on a
\* non-conditional node and yields "" before Incr on a conditional one.
AbsentUseIsParenthesized ==
  /\ UseOnlyAbsent =>
       /\ Ok(Last)
       /\ LastBase = Join([i \in 1..Len(params[Last.node].Use) |->
                             "(" \o params[Last.node].Use[i] \o ")"], sepPLUS)
  /\ UseOnlyEmptyStrings =>
       IF params[Last.node].conditional THEN Ok(Last) /\ LastBase = ""
       ELSE Last.err = EmptyKeyError

WitnessAbsentUse ==
  /\ UseOnlyAbsent /\ ~params[Last.node].conditional
  /\ Last.key = "(txt)"

SameCall(a, b) == a.node = b.node /\ a.orig = b.orig /\ a.obj = b.obj

\* C6 as stated: the same schema node on the same (container, current) pair returns
\* the identical key on every invocation, Incr or not.
SameCallSameKey ==
  \A i, j \in 1..Len(calls) : SameCall(calls[i], calls[j]) => calls[i].key = calls[j].key

NoIncr == \A n \in Nodes : ~params[n].Incr

\* C6 amended: for every schema none of whose nodes sets Incr, the same schema node
\* on the same (container, current) pair returns the identical key (or aborts
\* alike) on every invocation, and the document stays as it was; a node with Incr
\* set returns a different key on each invocation.
SameCallSameKeyWithoutIncr ==
  /\ NoIncr =>
       /\ \A i, j \in 1..Len(calls) :
            SameCall(calls[i], calls[j]) =>
               calls[i].key = calls[j].key /\ calls[i].err = calls[j].err
       /\ doc = Doc0
  /\ \A i, j \in 1..Len(calls) :
       ( /\ i < j /\ SameCall(calls[i], calls[j])
         /\ params[calls[i].node].Incr /\ Ok(calls[i]) /\ Ok(calls[j]) ) =>
          calls[i].key # calls[j].key

WitnessSameCall ==
  /\ NoIncr /\ Len(calls) = 2
  /\ SameCall(calls[1], calls[2])
  /\ calls[1].key = "b|a" /\ calls[2].key = "b|a"

\* the Look rule decides the last invocation
LookDecides == HasCall /\ NoMatch /\ Len(params[Last.node].Use) = 0

\* the value the last invocation's current holds at the path of Look child c
Target(c) == Lookup(pre, Last.obj, params[c].At)

\* the keys of the elements of an array under Look child c, element after element
\* from heap d on
RECURSIVE ElementKeys(_, _, _, _)
ElementKeys(c, refs, i, d) ==
  IF i > Len(refs) THEN <<>>
  ELSE LET r == doBuildUniqueKey(params, c, Last.obj, refs[i], Start(d))
       IN  <<r.result>> \o ElementKeys(c, refs, i + 1, r.doc)

Kept(c, keys) == SelectSeq(keys, LAMBDA k : k # "" \/ ~params[c].conditional)

ResolvedExample == doResolve(SchemaExample, 1, FALSE)
ResolvedItems == doResolve(SchemaItems, 1, FALSE)

OnExampleDocument == HasCall /\ Last.node = 1 /\ Last.orig = "ex" /\ Last.obj = "ex"

\* C7 as stated: {look: [{at: "items", look: [{use: ["id"]}]}]} applied to
\* {items: [{id: "b"}, {id: "a"}]} yields "b|a".
ExampleSchemaYieldsPositionalKey ==
  (OnExampleDocument /\ params = ResolvedExample) => Last.key = "b|a"

\* C7 amended: when the path of a Look child holds an array of mappings, the child
\* is evaluated once per element with (current, element) in document order and
\* contributes those element keys (the empty ones left out when the child is
\* conditional) joined with "|" in that order, never sorted.  The innermost node
\* of the example has no `at`, so it looks up the path "" in each element and the
\* example yields "()|()"; with `at: "."` on that node the key is "b|a".
ArrayKeysJoinedInDocumentOrder ==
  /\ ( /\ LookDecides /\ Ok(Last)
       /\ Len(params[Last.node].Look) = 1
       /\ params[params[Last.node].Look[1]].At # currentPATH
       /\ Target(params[Last.node].Look[1]).v.t = "maps" ) =>
       LET c == params[Last.node].Look[1]
       IN  LastBase = Join(Kept(c, ElementKeys(c, Target(c).v.refs, 1, pre)), sepPIPE)
  /\ (OnExampleDocument /\ params = ResolvedExample) => Last.key = "()|()"
  /\ (OnExampleDocument /\ params = ResolvedItems) => Last.key = "b|a"

WitnessArrayKeys == OnExampleDocument /\ params = ResolvedItems /\ Last.key = "b|a"

IsScalar(v) == v.t \in {"string", "float64", "bool"}

\* C8 as stated, for a node whose only Look child is not ".": a scalar at the
\* child's path contributes childPath + "empty ??" and does not abort.
ScalarAtLookPathIsEmpty ==
  ( /\ LookDecides
    /\ Len(params[Last.node].Look) = 1
    /\ params[params[Last.node].Look[1]].At # currentPATH
    /\ Target(params[Last.node].Look[1]).ok
    /\ IsScalar(Target(params[Last.node].Look[1]).v) ) =>
     /\ Ok(Last)
     /\ LastBase = params[params[Last.node].Look[1]].At \o "empty ??"

\* what a Look child contributes when its path is missing or holds null
NilContribution(c) ==
  IF Target(c).ok THEN params[c].At \o "empty ??" ELSE "(" \o params[c].At \o ")"

\* C8 amended: a Look child whose path is not "." contributes "(" + childPath + ")"
\* when the path is missing from current and childPath + "empty ??" when the path
\* is present and null, without aborting; a scalar (string, number, boolean) or an
\* array that is not an array of mappings at the path raises the unsupported-shape
\* failure.
NilAtLookPathContributes ==
  LookDecides =>
     LET look == params[Last.node].Look
         nils == {i \in 1..Len(look) :
                    params[look[i]].At # currentPATH /\ Target(look[i]).v.t = "nil"}
         bad == {i \in 1..Len(look) :
                   /\ params[look[i]].At # currentPATH
                   /\ Target(look[i]).v.t \notin {"nil", "map", "maps"}}
     IN  /\ (Len(look) > 0 /\ nils = 1..Len(look)) =>
              /\ Ok(Last)
              /\ LastBase = Join([i \in 1..Len(look) |-> NilContribution(look[i])], sepPLUS)
         /\ (\E i \in bad : \A j \in 1..(i - 1) : j \in nils) =>
              Last.err = UnsupportedShapeError

WitnessNilAtLookPath ==
  /\ LookDecides /\ Ok(Last)
  /\ Len(params[Last.node].Look) = 1
  /\ Target(params[Last.node].Look[1]).ok
  /\ Last.key = "nempty ??"

Declares(p, n) ==
  \/ \E i \in 1..Len(params[p].When) : params[p].When[i] = n
  \/ \E i \in 1..Len(params[p].Look) : params[p].Look[i] = n
  \/ \E path \in DOMAIN params[p].For : params[p].For[path] = n

IsWhenBranch(n) == \E p \in Nodes : \E i \in 1..Len(params[p].When) : params[p].When[i] = n

DeclaredBy(n) == CHOOSE p \in Nodes : Declares(p, n)

\* n is a When branch or has an ancestor that is one
RECURSIVE UnderWhen(_)
UnderWhen(n) ==
  \/ IsWhenBranch(n)
  \/ (\E p \in Nodes : Declares(p, n)) /\ UnderWhen(DeclaredBy(n))

\* C9: after Resolve, a node is conditional exactly when it is a When branch or
\* has an ancestor that is one; the root is not conditional, For and Look children
\* take their parent's flag, and every other node's parent link points to the node
\* that declares it.
ConditionalIffUnderWhen ==
  pc # "loaded" =>
     \A n \in Nodes :
        /\ params[n].conditional = UnderWhen(n)
        /\ n = 1 => (~params[n].conditional /\ params[n].parent = NilParam)
        /\ n # 1 =>
             /\ Declares(params[n].parent, n)
             /\ \A p \in Nodes : Declares(p, n) => p = params[n].parent
             /\ ~IsWhenBranch(n) =>
                  params[n].conditional = params[params[n].parent].conditional

\* a Look child conditional by inheritance beside a non-conditional For child
WitnessConditional ==
  /\ pc = "resolved"
  /\ \E n, m \in Nodes :
       /\ params[n].conditional /\ ~IsWhenBranch(n) /\ params[n].At = "items"
       /\ ~params[m].conditional /\ m # 1

\* the base keys object o of heap d counts, and the count of one of them
CountedKeys(d, o) ==
  IF Lookup(d, o, objINCREMENTS).v.t = "increments"
  THEN DOMAIN d[o][objINCREMENTS].c ELSE {}

Count(d, o, k) == IF k \in CountedKeys(d, o) THEN d[o][objINCREMENTS].c[k] ELSE 0

\* mapping o holds object x at path `at`, as a nested mapping or as an array item
HoldsAt(d, o, at, x) ==
  LET l == Lookup(d, o, at)
  IN  \/ l.v.t = "map" /\ l.v.ref = x
      \/ l.v.t = "maps" /\ \E k \in 1..Len(l.v.refs) : l.v.refs[k] = x

\* the i-th evaluation of the last invocation got the container the rules give it:
\* its parent's container for a When branch and for a "." self-reference, its
\* parent's current (the mapping that holds its own current) when descending
PassedContainer(i) ==
  LET e == trace[i]
      p == params[e.node].parent
  IN  IF IsWhenBranch(e.node) \/ params[e.node].At = currentPATH
      THEN \E j \in 1..(i - 1) :
              trace[j].node = p /\ trace[j].orig = e.orig /\ trace[j].obj = e.obj
      ELSE \E j \in 1..(i - 1) :
              /\ trace[j].node = p /\ trace[j].obj = e.orig
              /\ HoldsAt(pre, e.orig, params[e.node].At, e.obj)

\* C10: an invocation changes no property of any mapping of the document except
\* the "_increments_" counters: each evaluation of a node with Incr set adds 1 to
\* the entry of its base key in the counters of the container passed to it, and
\* when no evaluated node has Incr set the document is left as it was.
OnlyIncrementsChange ==
  HasCall =>
     /\ \A o \in Objects :
          /\ DOMAIN doc[o] \ {objINCREMENTS} = DOMAIN pre[o] \ {objINCREMENTS}
          /\ \A prop \in DOMAIN pre[o] \ {objINCREMENTS} : doc[o][prop] = pre[o][prop]
          /\ objINCREMENTS \in DOMAIN doc[o] => doc[o][objINCREMENTS].t = "increments"
          /\ \A k \in CountedKeys(doc, o) \cup CountedKeys(pre, o)
                        \cup {log[i].base : i \in LastIncrs} :
               Count(doc, o, k) =
                 Count(pre, o, k)
                   + Cardinality({i \in LastIncrs : log[i].orig = o /\ log[i].base = k})
     /\ \A i \in 2..Len(trace) : PassedContainer(i)
     /\ \A i \in LastIncrs :
          /\ params[log[i].node].Incr
          /\ \E j \in 1..Len(trace) :
               /\ trace[j].node = log[i].node
               /\ trace[j].orig = log[i].orig
               /\ trace[j].obj = log[i].obj
     /\ Ok(Last) =>
          Last.incrs = Cardinality({j \in 1..Len(trace) : params[trace[j].node].Incr})
     /\ (\A j \in 1..Len(trace) : ~params[trace[j].node].Incr) => doc = pre

\* Incr on the invoked node and on "." self-references of the items of an array,
\* all counted on the one container
WitnessOnlyIncrements ==
  /\ HasCall /\ Ok(Last) /\ Last.incrs = 7 /\ doc # pre
  /\ \A i \in LastIncrs : log[i].orig = "root"
  /\ \E i \in LastIncrs : params[log[i].node].At = currentPATH /\ log[i].obj = "item3"

====
